---- MODULE Spec2Model ----
(***************************************************************************)
(* A model of listdir (src/src/main.c): the path text helpers, the         *)
(* PathQuery nodes, the PathList collection, argument reading and the      *)
(* traversal GetInfo / PathQueryPrintDir / PathQueryPrintPath.             *)
(*                                                                         *)
(* A C string is modelled as the sequence of its bytes before the NUL      *)
(* terminator; every text of the model is shorter than PATH_MAX, so the    *)
(* strncpy calls copy the whole text and its terminator.                   *)
(***************************************************************************)
EXTENDS Integers, Sequences, FiniteSets, TLC

\* ------------------------------------------------------------------ bounds

\* longest text the text and node harnesses enumerate
MaxLen == 4

\* ------------------------------------------------------------- characters

\* '.' and '/' as byte values (main.c:180, main.c:196)
Dot == 46
Slash == 47

\* the bytes texts are drawn from: '.', '/', 'a'
Alphabet == {Dot, Slash, 97}

RECURSIVE TextsOfLen(_)
TextsOfLen(n) ==
    IF n = 0 THEN {<<>>}
    ELSE {Append(t, c) : t \in TextsOfLen(n - 1), c \in Alphabet}

\* every text of at most MaxLen bytes over Alphabet
Texts == UNION {TextsOfLen(n) : n \in 0..MaxLen}

\* ------------------------------------------------------- text helpers (C)

\* a variant that goes on removing "./" while the text starts with it
RECURSIVE RemoveLeadingRepeated(_)
RemoveLeadingRepeated(buf) ==
    IF Len(buf) >= 2 /\ buf[1] = Dot /\ buf[2] = Slash
    THEN RemoveLeadingRepeated(SubSeq(buf, 3, Len(buf)))
    ELSE buf

\* main.c:175-189. buf[0] == '.' && buf[1] == '/' reads the terminator when
\* the text is shorter than two bytes, and the test is then false.
RemoveLeadingPeriodAndForwardSlashes(buf) ==
    LET s == IF Len(buf) >= 2 /\ buf[1] = Dot /\ buf[2] = Slash THEN 2 ELSE 0
    IN  IF s # 0 THEN SubSeq(buf, s + 1, Len(buf)) ELSE buf

\* a variant of the loop that goes down to index 0 (i >= 0)
RECURSIVE TrailingLoopToZero(_, _)
TrailingLoopToZero(buf, i) ==
    IF i >= 0 /\ buf[i + 1] = Slash
    THEN TrailingLoopToZero(SubSeq(buf, 1, i), i - 1)
    ELSE buf

\* the loop of main.c:195-201 with C index i (0-based): while i > 0 and
\* buf[i] == '/', write the terminator at i and step down; byte 0 is never
\* examined.
RECURSIVE TrailingLoop(_, _)
TrailingLoop(buf, i) ==
    IF i > 0 /\ buf[i + 1] = Slash
    THEN TrailingLoop(SubSeq(buf, 1, i), i - 1)
    ELSE buf

\* main.c:191-204
RemoveTrailingForwardSlashes(buf) == TrailingLoop(buf, Len(buf) - 1)

\* --------------------------------------------------------- PathQuery (C)

\* main.c:59-80. parent is the index of the parent node in the node arena,
\* 0 for NULL; lvl is an unsigned char.
PathQuery == [p : Seq(Alphabet), parent : Nat, lvl : 0..255]

\* a variant that stores the path as given
PathQueryCreateUnstripped(path) == [p |-> path, parent |-> 0, lvl |-> 0]

\* main.c:206-214: memset, strncpy, RemoveTrailingForwardSlashes
PathQueryCreate(path) ==
    [p |-> RemoveTrailingForwardSlashes(path), parent |-> 0, lvl |-> 0]

\* main.c:222-238: parent is the node at index pi of arena
PathQueryCreateChild(arena, pi, leaf) ==
    [p |-> RemoveLeadingPeriodAndForwardSlashes(
               RemoveTrailingForwardSlashes(leaf)),
     parent |-> pi,
     lvl |-> (arena[pi].lvl + 1) % 256]

\* main.c:227: what PathQueryCreateChild returns, 1 when one of its three
\* pointers is NULL and 0 otherwise
PathQueryCreateChildRet(pNull, cNull, leafNull) ==
    IF pNull \/ leafNull \/ cNull THEN 1 ELSE 0

\* main.c:266-269
PathQueryGetLevel(q) == q.lvl

\* main.c:240-260: the loop prepends "<segment>/" for the node and each
\* ancestor, then the trailing slashes are removed. arena[qi] is the node.
RECURSIVE GetPathLoop(_, _, _)
GetPathLoop(arena, qi, path) ==
    LET t == arena[qi].p \o <<Slash>> \o path
    IN  IF arena[qi].parent # 0
        THEN GetPathLoop(arena, arena[qi].parent, t)
        ELSE t

PathQueryGetPath(arena, qi) ==
    RemoveTrailingForwardSlashes(GetPathLoop(arena, qi, <<>>))

\* ------------------------------------------------------- string order (C)

\* strcmp: the sign of the first differing byte pair, the terminator being 0
RECURSIVE StrCmpAt(_, _, _)
StrCmpAt(a, b, i) ==
    LET ca == IF i <= Len(a) THEN a[i] ELSE 0
        cb == IF i <= Len(b) THEN b[i] ELSE 0
    IN  IF ca # cb THEN ca - cb
        ELSE IF ca = 0 THEN 0
        ELSE StrCmpAt(a, b, i + 1)

StrCmp(a, b) == StrCmpAt(a, b, 1)

\* main.c:325-330: the inner loop, j and min being C indexes (0-based)
RECURSIVE FindMin(_, _, _, _)
FindMin(array, size, j, min) ==
    IF j < size
    THEN FindMin(array, size, j + 1,
                 IF StrCmp(array[j + 1], array[min + 1]) < 0 THEN j ELSE min)
    ELSE min

\* main.c:323-337: the outer loop with the swap
RECURSIVE SortLoop(_, _, _)
SortLoop(array, size, i) ==
    IF i < size
    THEN LET min == FindMin(array, size, i + 1, i)
             swapped == [array EXCEPT ![min + 1] = array[i + 1],
                                      ![i + 1] = array[min + 1]]
         IN  SortLoop(IF min # i THEN swapped ELSE array, size, i + 1)
    ELSE array

\* main.c:320-340 (selection sort); the result array, the return value is 0
ArraySort(array, size) == SortLoop(array, size, 0)

\* --------------------------------------------------------- PathList (C)

\* main.c:86-94. An array is the sequence of the copies stored in it; the
\* empty sequence is the NULL array of a list nothing was added to.
EmptyPathList ==
    [arrayfile |-> <<>>, sizefile |-> 0, arraydir |-> <<>>, sizedir |-> 0]

\* main.c:276-279
PathListGetSize(paths) == paths.sizefile + paths.sizedir

\* a variant that serves the directory array first
PathListGetPathAtIndexDirsFirst(paths, index) ==
    IF index >= paths.sizefile + paths.sizedir
    THEN [ret |-> 1, buf |-> <<>>]
    ELSE IF index < paths.sizedir
    THEN [ret |-> 0, buf |-> paths.arraydir[index + 1]]
    ELSE [ret |-> 0, buf |-> paths.arrayfile[index - paths.sizedir + 1]]

\* main.c:281-293
PathListGetPathAtIndex(paths, index) ==
    IF index >= PathListGetSize(paths)
    THEN [ret |-> 1, buf |-> <<>>]
    ELSE IF index < paths.sizefile
    THEN [ret |-> 0, buf |-> paths.arrayfile[index + 1]]
    ELSE [ret |-> 0, buf |-> paths.arraydir[index - paths.sizefile + 1]]

\* what the allocator does in one AddPathToArray call
AllocOutcomes == {"ok", "realloc_null", "copy_null"}

\* main.c:361-383. The count is incremented before realloc; on either
\* failure the function returns 1 with the count still incremented and
\* *arrayptr not updated, so the stored copies are the old ones.
AddPathToArray(array, size, path, alloc) ==
    IF alloc = "realloc_null"
    THEN [ret |-> 1, array |-> array, size |-> size + 1]
    ELSE IF alloc = "copy_null"
    THEN [ret |-> 1, array |-> array, size |-> size + 1]
    ELSE [ret |-> 0, array |-> Append(array, path), size |-> size + 1]

\* main.c:385-402: isFile is the answer of BFFileSystemPathIsFile(path)
PathListAddPath(paths, path, isFile, alloc) ==
    IF isFile
    THEN LET r == AddPathToArray(paths.arrayfile, paths.sizefile, path, alloc)
         IN  [ret |-> r.ret,
              paths |-> [paths EXCEPT !.arrayfile = r.array,
                                      !.sizefile = r.size]]
    ELSE LET r == AddPathToArray(paths.arraydir, paths.sizedir, path, alloc)
         IN  [ret |-> r.ret,
              paths |-> [paths EXCEPT !.arraydir = r.array,
                                      !.sizedir = r.size]]

\* a variant in which the else-if is not taken once the file array has
\* been sorted
PathListSortFilesFirst(paths) ==
    [ret |-> 0,
     paths |-> IF paths.arrayfile # <<>>
               THEN [paths EXCEPT !.arrayfile =
                        ArraySort(paths.arrayfile, paths.sizefile)]
               ELSE [paths EXCEPT !.arraydir =
                        ArraySort(paths.arraydir, paths.sizedir)]]

\* main.c:404-416. ArraySort returns 0 for a non-NULL array, so the first
\* condition is false and the else-if sorts the directory array too.
PathListSort(paths) ==
    [ret |-> 0,
     paths |-> [paths EXCEPT
        !.arrayfile = IF paths.arrayfile # <<>>
                      THEN ArraySort(paths.arrayfile, paths.sizefile)
                      ELSE paths.arrayfile,
        !.arraydir = IF paths.arraydir # <<>>
                     THEN ArraySort(paths.arraydir, paths.sizedir)
                     ELSE paths.arraydir]]

\* --------------------------------------------------------- arguments (C)

\* '-' (main.c:429) and the flag letters (main.c:27-29)
Dash == 45
ARG_FLAG_RECURSIVE == 114
ARG_FLAG_HELP == 104
ARG_FLAG_VERSION == 118

\* "--brief-description" (main.c:30)
ARG_BRIEF_DESCRIPTION ==
    <<45, 45, 98, 114, 105, 101, 102, 45, 100, 101, 115, 99, 114, 105, 112,
      116, 105, 111, 110>>

\* main.c:96-105, after memset (main.c:146)
EmptyArguments ==
    [paths |-> EmptyPathList, showhelp |-> FALSE, showversion |-> FALSE,
     recursive |-> FALSE, briefDescription |-> FALSE]

\* main.c:295-313: every byte of the argument is looked at, the '-' included
ArgumentsReadFlagsFromArg(arg, a) ==
    [a EXCEPT
        !.recursive = a.recursive
                      \/ \E i \in 1..Len(arg) : arg[i] = ARG_FLAG_RECURSIVE,
        !.showhelp = a.showhelp
                     \/ \E i \in 1..Len(arg) : arg[i] = ARG_FLAG_HELP,
        !.showversion = a.showversion
                        \/ \E i \in 1..Len(arg) : arg[i] = ARG_FLAG_VERSION]

\* which branch of main.c:425-439 argv[i] takes (i is the C index, >= 1)
ArgKind(arg, i) ==
    IF arg = ARG_BRIEF_DESCRIPTION THEN "brief"
    ELSE IF i = 1 /\ Len(arg) >= 1 /\ arg[1] = Dash THEN "flags"
    ELSE "path"

\* ---------------------------------------------------------- metadata (C)

\* struct stat as the code reads it: the S_IFMT part of st_mode, the nine
\* permission bits of st_mode, st_size, the three times, st_uid, st_gid
RegStat ==
    [ifmt |-> "S_IFREG", perm |-> 420, size |-> 5,
     mtime |-> 11, atime |-> 12, ctime |-> 13, uid |-> 1000, gid |-> 100]
DirStat ==
    [ifmt |-> "S_IFDIR", perm |-> 493, size |-> 4096,
     mtime |-> 21, atime |-> 22, ctime |-> 23, uid |-> 0, gid |-> 0]
LnkStat ==
    [ifmt |-> "S_IFLNK", perm |-> 511, size |-> 1,
     mtime |-> 31, atime |-> 32, ctime |-> 33, uid |-> 1000, gid |-> 100]

\* the text readlink stores for a symlink: "a"
LinkTarget == <<97>>

\* main.c:683: what BFByteGetString can return, 0 or an error value of the
\* library (bflibc, outside this source tree); 2 and 7 stand for the
\* nonzero values
BFByteGetStringReturns == {0, 2, 7}

\* What the system answers to the calls PathQueryPrintPath makes on one
\* path: lstat (lok, l), stat following links (fok, f), readlink (rlok),
\* BFByteGetString (bs, the value it returns). For a path that is no
\* symlink stat answers what lstat answered, or fails; for a symlink stat
\* answers for the target, or fails when the target cannot be reached.
MetaOutcomes ==
    {[lok |-> FALSE, l |-> RegStat, fok |-> FALSE, f |-> RegStat,
      rlok |-> FALSE, bs |-> 0]}
    \cup {[lok |-> TRUE, l |-> st, fok |-> FALSE, f |-> st,
           rlok |-> FALSE, bs |-> 0] : st \in {RegStat, DirStat}}
    \cup {[lok |-> TRUE, l |-> st, fok |-> TRUE, f |-> st,
           rlok |-> FALSE, bs |-> b] :
              st \in {RegStat, DirStat}, b \in BFByteGetStringReturns}
    \cup {[lok |-> TRUE, l |-> LnkStat, fok |-> fo,
           f |-> IF fo THEN RegStat ELSE LnkStat,
           rlok |-> r, bs |-> b] :
              fo \in BOOLEAN, r \in BOOLEAN, b \in BFByteGetStringReturns}

\* the answers of a step that asked the system nothing
NoMeta ==
    [lok |-> FALSE, l |-> RegStat, fok |-> FALSE, f |-> RegStat,
     rlok |-> FALSE, bs |-> 0]

\* What getpwuid(owner) and getgrgid(group) answer in
\* PathQueryPrintPathDetail (main.c:606-610). "found": both return an
\* entry. Otherwise one of them returns NULL and the code reads pw_name or
\* gr_name through it, which is undefined: "killed" is the run in which the
\* read kills the process, "wild" the run in which the read yields some
\* bytes and the printing goes on.
NameOutcomes == {"found", "killed", "wild"}

S_ISLNK(st) == st.ifmt = "S_IFLNK"

\* main.c:455-466, the tags of main.c:32-39
StatGetModeType(st) ==
    CASE st.ifmt = "S_IFBLK" -> "b"
      [] st.ifmt = "S_IFCHR" -> "c"
      [] st.ifmt = "S_IFDIR" -> "d"
      [] st.ifmt = "S_IFIFO" -> "p"
      [] st.ifmt = "S_IFLNK" -> "l"
      [] st.ifmt = "S_IFREG" -> "f"
      [] st.ifmt = "S_IFSOCK" -> "s"
      [] OTHER -> "?"

\* main.c:497-508
StatGetModeTypeColor(st) ==
    CASE st.ifmt = "S_IFBLK" -> "ANSI_COLOR_RED"
      [] st.ifmt = "S_IFCHR" -> "ANSI_COLOR_RED"
      [] st.ifmt = "S_IFDIR" -> "ANSI_COLOR_MAGENTA"
      [] st.ifmt = "S_IFIFO" -> "ANSI_COLOR_RED"
      [] st.ifmt = "S_IFLNK" -> "ANSI_COLOR_CYAN"
      [] st.ifmt = "S_IFREG" -> "ANSI_COLOR_GREEN"
      [] st.ifmt = "S_IFSOCK" -> "ANSI_COLOR_RED"
      [] OTHER -> "ANSI_COLOR_GREEN"

\* --------------------------------------------------------- rendering (C)

\* the index of the last '/' of t, 0 when there is none
RECURSIVE LastSlash(_, _)
LastSlash(t, i) ==
    IF i = 0 THEN 0 ELSE IF t[i] = Slash THEN i ELSE LastSlash(t, i - 1)

\* basename(3) as called at main.c:527: "." for the empty text, "/" for a
\* text of slashes, else the last component, trailing slashes ignored
Basename(t) ==
    IF t = <<>> THEN <<Dot>>
    ELSE IF \A i \in 1..Len(t) : t[i] = Slash THEN <<Slash>>
    ELSE LET u == RemoveTrailingForwardSlashes(t)
         IN  SubSeq(u, LastSlash(u, Len(u)) + 1, Len(u))

\* main.c:512-539
GetPrintablePath(arena, qi) ==
    LET b == PathQueryGetPath(arena, qi)
    IN  IF PathQueryGetLevel(arena[qi]) > 0
        THEN Basename(b)
        ELSE RemoveLeadingPeriodAndForwardSlashes(b)

\* a variant without the level test
ShouldPrintInDetailAnyLevel(n, lvl) == n = 1

\* main.c:706-707: n is PathListGetSize(&args->paths)
ShouldPrintInDetail(n, lvl) == n = 1 /\ lvl = 0

\* main.c:709-719: getpwuid and getgrgid are called in the detail
\* presentation only; in the brief one nothing is asked and nothing found
\* missing
NamesAsked(n, lvl) ==
    IF ShouldPrintInDetail(n, lvl) THEN NameOutcomes ELSE {"found"}

\* a variant that reads a symlink again with stat when stat succeeds
StatForPrintFollowing(md) ==
    IF ~S_ISLNK(md.l) \/ md.fok THEN md.f ELSE md.l

\* main.c:668-677: the struct stat the rest of PathQueryPrintPath reads. A
\* path that is no symlink is read again with stat; a symlink keeps what
\* lstat stored.
StatForPrint(md) == IF ~S_ISLNK(md.l) THEN md.f ELSE md.l

\* " -> " and "?" (main.c:674-676)
LinkArrow == <<32, 45, 62, 32>>
LinkUnknown == <<63>>

\* a step that returned 0 and printed nothing. ret is the value returned
\* for the root or the entry, reported says that the caller printed its
\* "path couldn't be worked on" line (main.c:765, main.c:806), lvl is the
\* level of the node the step was about, killed says that the process was
\* killed inside the step, which then returned nothing.
NoOutput ==
    [ret |-> 0, reported |-> FALSE, lvl |-> 0, killed |-> FALSE,
     kind |-> "none", path |-> <<>>, modetype |-> "", m |-> 0, size |-> 0,
     mtime |-> 0, atime |-> 0, ctime |-> 0, color |-> "", linkdesc |-> <<>>,
     uid |-> 0, gid |-> 0]

\* main.c:643-729. The result is the return value (ret) and what was
\* printed: kind "error" for the error lines of main.c:654 and main.c:670,
\* "detail" for PathQueryPrintPathDetail with its arguments, "brief" for
\* PathQueryPrintPathBrief with its arguments (no access or change time),
\* "none" when BFByteGetString fails (main.c:683-685), whose value is then
\* returned. names is the answer of getpwuid and getgrgid, asked for in the
\* detail presentation only: when the process is killed there
\* (main.c:607, main.c:610), the two header lines of main.c:603-604 were
\* printed and nothing is returned.
PathQueryPrintPath(arena, qi, args, md, names) ==
    LET p == PathQueryGetPath(arena, qi)
        st == StatForPrint(md)
        linkdesc == IF S_ISLNK(md.l)
                    THEN LinkArrow \o (IF md.rlok THEN LinkTarget
                                                  ELSE LinkUnknown)
                    ELSE <<>>
        lvl == PathQueryGetLevel(arena[qi])
        shown == [NoOutput EXCEPT
                    !.lvl = lvl,
                    !.path = GetPrintablePath(arena, qi),
                    !.modetype = StatGetModeType(st),
                    !.m = st.perm,
                    !.size = st.size,
                    !.mtime = st.mtime,
                    !.color = StatGetModeTypeColor(st),
                    !.linkdesc = linkdesc]
    IN  IF ~md.lok
        THEN [NoOutput EXCEPT !.ret = 1, !.lvl = lvl, !.kind = "error",
                              !.path = p]
        ELSE IF ~S_ISLNK(md.l) /\ ~md.fok
        THEN [NoOutput EXCEPT !.ret = 1, !.lvl = lvl, !.kind = "error"]
        ELSE IF md.bs # 0
        THEN [NoOutput EXCEPT !.ret = md.bs, !.lvl = lvl]
        ELSE IF ShouldPrintInDetail(PathListGetSize(args.paths), lvl)
        THEN [shown EXCEPT !.kind = "detail", !.atime = st.atime,
                           !.ctime = st.ctime, !.uid = st.uid,
                           !.gid = st.gid, !.killed = (names = "killed")]
        ELSE [shown EXCEPT !.kind = "brief"]

\* ------------------------------------------------------- directories (C)

DotName == <<Dot>>
DotDotName == <<Dot, Dot>>

\* what scandir(p, &namelist, NULL, alphasort) can answer: -1, or one of
\* these lists of (d_name, d_type) in alphasort order
ScanLists ==
    {<<[d_name |-> DotName, d_type |-> "DT_DIR"],
       [d_name |-> DotDotName, d_type |-> "DT_DIR"]>>,
     <<[d_name |-> DotName, d_type |-> "DT_DIR"],
       [d_name |-> DotDotName, d_type |-> "DT_DIR"],
       [d_name |-> <<97>>, d_type |-> "DT_REG"],
       [d_name |-> <<115, 117, 98>>, d_type |-> "DT_DIR"],
       [d_name |-> <<122>>, d_type |-> "DT_LNK"]>>}

\* main.c:751: strcmp(d_name, ".") && strcmp(d_name, "..")
IsListed(ent) ==
    StrCmp(ent.d_name, DotName) # 0 /\ StrCmp(ent.d_name, DotDotName) # 0

\* main.c:761-767: PathQueryPrintPath is called for the entry unless the
\* recursive flag is set and the entry is a directory
EntryIsPrinted(recursive, ent) == ~(recursive /\ ent.d_type = "DT_DIR")

\* a variant that also leaves the turn early when PathQueryPrintPath fails
FreesEntryUnlessError(listed, childRet, printRet) ==
    ~(listed /\ (childRet # 0 \/ printRet # 0))

\* main.c:750-771: whether the turn of the loop reaches free(namelist[i]).
\* The only way past it is the continue taken when PathQueryCreateChild
\* fails for an entry that is neither "." nor ".."; a failure of
\* PathQueryPrintPath prints an error line and falls through to the free.
FreesEntry(listed, childRet, printRet) == ~(listed /\ childRet # 0)

\* main.c:737-738 and main.c:773: nothing of a directory read is allocated
NothingHeld == [ents |-> {}, list |-> FALSE]

\* a variant that leaves the loop when PathQueryPrintPath fails
NextEntryStopOnError(i, n, ret) == IF ret # 0 THEN n ELSE i + 1

\* main.c:750: the index of the entry the loop of PathQueryPrintDir goes
\* to after the entry at index i, whatever PathQueryPrintPath returned
NextEntry(i, n, ret) == i + 1

\* main.c:784: the index of the root the loop of GetInfo goes to after the
\* root at index i, whatever the root's processing returned
NextRoot(i, n, err) == i + 1

\* --------------------------------------------------------------- state

VARIABLES
    text,     \* text harness: the text first put in the buffer
    buf,      \* text harness: the buffer after the calls so far
    prev,     \* text harness: the buffer before the latest call
    ops,      \* text harness: the calls made, "L" leading / "T" trailing
    nodes,    \* node harness: the PathQuery nodes built, parent first
    given,    \* node harness: the text each node was built from
    full,     \* node harness: what PathQueryGetPath returned for each node
    pc,       \* program: where the run is
    argi,     \* program: ArgumentsRead's loop index i
    args,     \* program: the Arguments of main
    error,    \* program: what ArgumentsRead returned
    hist,     \* program: the PathList calls so far: "add", "sort", "at"
    rooti,    \* program: GetInfo's loop index i
    root,     \* program: GetInfo's PathQuery path, as a node arena
    rootFile, \* program: what PathQueryIsFile answered for the root
    namelist, \* program: PathQueryPrintDir's namelist
    entj,     \* program: PathQueryPrintDir's loop index i
    seen,     \* program: the names of this directory the loop has taken up
              \*          and found to be neither "." nor ".."
    printed,  \* program: the names of this directory PathQueryPrintPath
              \*          was called for
    plain,    \* program: the names of this directory PathQueryPrintPath is
              \*          called for when the recursive flag is not set
    last,     \* program: what the latest step returned and printed
    lastmd,   \* program: what the system answered in the latest step
    failed,   \* program: an earlier root of this run has failed (root),
              \*          an earlier entry of this directory has (entry)
    visited,  \* program: the paths GetInfo has taken from the list
    held,     \* program: what scandir allocated for the directory and is
              \*          not freed yet: the indexes of the entry buffers
              \*          (ents) and the list itself (list)
    freed,    \* program: what PathListRelease did
    before    \* sort harness: the PathList as it was before each sort

textVars == <<text, buf, prev, ops>>
nodeVars == <<nodes, given, full>>
argVars == <<argi, args, error>>
walkVars == <<rooti, root, rootFile, namelist, entj, seen, printed, plain,
              last, lastmd, failed, visited, held>>
progVars == <<pc, argVars, hist, walkVars, freed>>
harnessVars == <<textVars, nodeVars, before>>
vars == <<harnessVars, progVars>>

\* ------------------------------------------------------- text harness

\* calls applied to one buffer
MaxApply == 2

TextIdle == text = <<>> /\ buf = <<>> /\ prev = <<>> /\ ops = <<>>
NodeIdle == nodes = <<>> /\ given = <<>> /\ full = <<>>
SortIdle == before = <<>>
WalkIdle ==
    /\ rooti = 0 /\ root = <<>> /\ rootFile = FALSE
    /\ namelist = <<>> /\ entj = 0
    /\ seen = <<>> /\ printed = <<>> /\ plain = <<>>
    /\ last = NoOutput /\ lastmd = NoMeta
    /\ failed = [root |-> FALSE, entry |-> FALSE] /\ visited = <<>>
    /\ held = NothingHeld
ProgIdle ==
    /\ pc = "idle" /\ argi = 0 /\ args = EmptyArguments /\ error = 0
    /\ hist = <<>> /\ WalkIdle /\ freed = "no"

InitText ==
    /\ text \in Texts
    /\ buf = text
    /\ prev = text
    /\ ops = <<>>
    /\ NodeIdle
    /\ SortIdle
    /\ ProgIdle

\* a call of RemoveLeadingPeriodAndForwardSlashes on the buffer
TextRemoveLeading ==
    /\ Len(ops) < MaxApply
    /\ buf' = RemoveLeadingPeriodAndForwardSlashes(buf)
    /\ prev' = buf
    /\ ops' = Append(ops, "L")
    /\ UNCHANGED <<text, nodeVars, before, progVars>>

\* a call of RemoveTrailingForwardSlashes on the buffer
TextRemoveTrailing ==
    /\ Len(ops) < MaxApply
    /\ buf' = RemoveTrailingForwardSlashes(buf)
    /\ prev' = buf
    /\ ops' = Append(ops, "T")
    /\ UNCHANGED <<text, nodeVars, before, progVars>>

NextText == TextRemoveLeading \/ TextRemoveTrailing

SpecText == InitText /\ [][NextText]_vars

\* ------------------------------------------------------- node harness

InitNode ==
    /\ NodeIdle
    /\ TextIdle
    /\ SortIdle
    /\ ProgIdle

\* PathQueryCreate on any text: the root node (GetInfo, main.c:792-793)
NodeCreate ==
    /\ nodes = <<>>
    /\ \E path \in Texts :
        /\ nodes' = <<PathQueryCreate(path)>>
        /\ given' = <<path>>
        /\ full' = <<PathQueryGetPath(nodes', 1)>>
    /\ UNCHANGED <<textVars, before, progVars>>

\* PathQueryCreateChild of the root on any text (PathQueryPrintDir,
\* main.c:755-756)
NodeCreateChild ==
    /\ Len(nodes) = 1
    /\ \E leaf \in Texts :
        /\ nodes' = Append(nodes, PathQueryCreateChild(nodes, 1, leaf))
        /\ given' = Append(given, leaf)
        /\ full' = Append(full, PathQueryGetPath(nodes', Len(nodes')))
    /\ UNCHANGED <<textVars, before, progVars>>

NextNode == NodeCreate \/ NodeCreateChild

SpecNode == InitNode /\ [][NextNode]_vars

\* ------------------------------------------------------- path harness

\* most nodes in one chain: a root, a child and a grandchild
MaxDepth == 3

\* the texts the nodes of a chain are built from: "", "/", "//", "./",
\* "x", "y", "z", "x/", "./y"
ChainTexts ==
    {<<>>, <<Slash>>, <<Slash, Slash>>, <<Dot, Slash>>,
     <<120>>, <<121>>, <<122>>, <<120, Slash>>, <<Dot, Slash, 121>>}

InitPath ==
    /\ NodeIdle
    /\ TextIdle
    /\ SortIdle
    /\ ProgIdle

\* PathQueryCreate on a text, then PathQueryGetPath on the node (GetInfo,
\* main.c:792-793, and PathQueryPrintDir, main.c:735)
PathCreate ==
    /\ nodes = <<>>
    /\ \E path \in ChainTexts :
        /\ nodes' = <<PathQueryCreate(path)>>
        /\ given' = <<path>>
        /\ full' = <<PathQueryGetPath(nodes', 1)>>
    /\ UNCHANGED <<textVars, before, progVars>>

\* PathQueryCreateChild of the newest node on a text, then PathQueryGetPath
\* on the child (PathQueryPrintDir, main.c:756, and PathQueryPrintPath)
PathCreateChild ==
    /\ nodes # <<>>
    /\ Len(nodes) < MaxDepth
    /\ \E leaf \in ChainTexts :
        /\ nodes' = Append(nodes,
                           PathQueryCreateChild(nodes, Len(nodes), leaf))
        /\ given' = Append(given, leaf)
        /\ full' = Append(full, PathQueryGetPath(nodes', Len(nodes')))
    /\ UNCHANGED <<textVars, before, progVars>>

NextPath == PathCreate \/ PathCreateChild

SpecPath == InitPath /\ [][NextPath]_vars

\* ------------------------------------------------------- sort harness

\* most paths in one array of the sort harness, and most sorts of one list
MaxSort == 3
MaxSortCalls == 2

\* the paths the arrays are filled with: "a", "b", "ab", "./a"
SortTexts == {<<97>>, <<98>>, <<97, 98>>, <<Dot, Slash, 97>>}

RECURSIVE ArraysOfLen(_)
ArraysOfLen(n) ==
    IF n = 0 THEN {<<>>}
    ELSE {Append(a, t) : a \in ArraysOfLen(n - 1), t \in SortTexts}

SortArrays == UNION {ArraysOfLen(n) : n \in 0..MaxSort}

\* a PathList after any successful adds: each count is its array's length
InitSort ==
    /\ TextIdle
    /\ NodeIdle
    /\ before = <<>>
    /\ pc = "idle" /\ argi = 0 /\ error = 0 /\ hist = <<>>
    /\ WalkIdle /\ freed = "no"
    /\ \E f \in SortArrays, d \in SortArrays :
         args = [EmptyArguments EXCEPT
                   !.paths = [arrayfile |-> f, sizefile |-> Len(f),
                              arraydir |-> d, sizedir |-> Len(d)]]

\* a call of PathListSort on the list
SortList ==
    /\ Len(hist) < MaxSortCalls
    /\ args' = [args EXCEPT !.paths = PathListSort(args.paths).paths]
    /\ hist' = Append(hist, "sort")
    /\ before' = Append(before, args.paths)
    /\ UNCHANGED <<textVars, nodeVars, pc, argi, error, walkVars, freed>>

NextSort == SortList

SpecSort == InitSort /\ [][NextSort]_vars

\* ------------------------------------------------------------ program

\* most arguments after argv[0]
MaxArgs == 3

\* the arguments a run is given: "-r", "-h", "--brief-description", and
\* the paths "a", "b" and "./a/"
ArgTokens ==
    {<<Dash, ARG_FLAG_RECURSIVE>>, <<Dash, ARG_FLAG_HELP>>,
     ARG_BRIEF_DESCRIPTION, <<97>>, <<98>>, <<Dot, Slash, 97, Slash>>}

\* main.c:144-148: main has cleared args and calls ArgumentsRead
Init ==
    /\ TextIdle
    /\ NodeIdle
    /\ SortIdle
    /\ pc = "args"
    /\ argi = 1
    /\ args = EmptyArguments
    /\ error = 0
    /\ hist = <<>>
    /\ WalkIdle
    /\ freed = "no"

\* main.c:424-440: one turn of ArgumentsRead's loop, on argv[argi]
ReadArg ==
    /\ pc = "args"
    /\ argi <= MaxArgs
    /\ \E arg \in ArgTokens :
        LET kind == ArgKind(arg, argi)
        IN  \/ /\ kind = "brief"
               /\ args' = [args EXCEPT !.briefDescription = TRUE]
               /\ argi' = argi + 1
               /\ UNCHANGED <<pc, error, hist>>
            \/ /\ kind = "flags"
               /\ args' = ArgumentsReadFlagsFromArg(arg, args)
               /\ argi' = argi + 1
               /\ UNCHANGED <<pc, error, hist>>
            \/ /\ kind = "path"
               /\ \E isFile \in BOOLEAN, alloc \in AllocOutcomes :
                    LET r == PathListAddPath(args.paths, arg, isFile, alloc)
                    IN  /\ args' = [args EXCEPT !.paths = r.paths]
                        /\ hist' = Append(hist, "add")
                        /\ IF r.ret # 0
                           THEN /\ error' = 1
                                /\ pc' = "main"
                                /\ UNCHANGED argi
                           ELSE /\ argi' = argi + 1
                                /\ UNCHANGED <<pc, error>>
    /\ UNCHANGED <<walkVars, freed, harnessVars>>

\* main.c:442-452: after the loop (argi = argc), "." is added when nothing
\* was, and the list is sorted
ArgumentsReadEnd ==
    /\ pc = "args"
    /\ IF PathListGetSize(args.paths) = 0
       THEN \E isFile \in BOOLEAN, alloc \in AllocOutcomes :
               LET r == PathListAddPath(args.paths, <<Dot>>, isFile, alloc)
                   sorted == PathListSort(r.paths)
               IN  IF r.ret # 0
                   THEN /\ args' = [args EXCEPT !.paths = r.paths]
                        /\ hist' = Append(hist, "add")
                        /\ error' = 1
                   ELSE /\ args' = [args EXCEPT !.paths = sorted.paths]
                        /\ hist' = hist \o <<"add", "sort">>
                        /\ error' = sorted.ret
       ELSE LET sorted == PathListSort(args.paths)
            IN  /\ args' = [args EXCEPT !.paths = sorted.paths]
                /\ hist' = Append(hist, "sort")
                /\ error' = sorted.ret
    /\ pc' = "main"
    /\ UNCHANGED <<argi, walkVars, freed, harnessVars>>

\* main.c:150-160: help, version and the brief description print and go on
\* to the release; otherwise GetInfo starts
Main ==
    /\ pc = "main"
    /\ pc' = IF error = 0 /\ ~args.showhelp /\ ~args.showversion
                /\ ~args.briefDescription
             THEN "getinfo" ELSE "release"
    /\ UNCHANGED <<argVars, hist, walkVars, freed, harnessVars>>

\* main.c:784-810: one turn of GetInfo's loop. A root PathQueryIsFile
\* calls a file is printed by PathQueryPrintPath; for any other root
\* PathQueryPrintDir starts (main.c:731-748) and, when scandir succeeds,
\* its loop is left to DirEntry.
GetInfoRoot ==
    /\ pc = "getinfo"
    /\ rooti < PathListGetSize(args.paths)
    /\ LET n == PathListGetSize(args.paths)
           at == PathListGetPathAtIndex(args.paths, rooti)
           arena == <<PathQueryCreate(at.buf)>>
       IN  /\ hist' = Append(hist, "at")
           /\ visited' = Append(visited, at.buf)
           /\ root' = arena
           /\ seen' = <<>>
           /\ printed' = <<>>
           /\ plain' = <<>>
           /\ entj' = 0
           /\ IF at.ret # 0
              THEN /\ rooti' = rooti + 1
                   /\ last' = [NoOutput EXCEPT !.ret = 1, !.reported = TRUE,
                                               !.kind = "error"]
                   /\ lastmd' = NoMeta
                   /\ failed' = [root |-> TRUE, entry |-> FALSE]
                   /\ namelist' = <<>>
                   /\ UNCHANGED <<pc, rootFile, held>>
              ELSE \E isFile \in BOOLEAN :
                    /\ rootFile' = isFile
                    /\ \/ /\ isFile
                          /\ \E md \in MetaOutcomes,
                                nm \in NamesAsked(n, PathQueryGetLevel(
                                                         arena[1])) :
                               LET r == PathQueryPrintPath(arena, 1, args,
                                                           md, nm)
                               IN  /\ lastmd' = md
                                   /\ IF r.killed
                                      THEN /\ last' = r
                                           /\ pc' = "killed"
                                           /\ UNCHANGED <<failed, rooti>>
                                      ELSE /\ last' = [r EXCEPT
                                                        !.reported = r.ret # 0]
                                           /\ failed' =
                                                [root |-> (failed.root
                                                           \/ r.ret # 0),
                                                 entry |-> FALSE]
                                           /\ rooti' = NextRoot(rooti, n,
                                                                r.ret)
                                           /\ pc' = "getinfo"
                          /\ namelist' = <<>>
                          /\ UNCHANGED held
                       \/ /\ ~isFile
                          /\ lastmd' = NoMeta
                          /\ \/ /\ last' = [NoOutput EXCEPT
                                              !.ret = 1, !.reported = TRUE,
                                              !.kind = "error",
                                              !.path = PathQueryGetPath(arena, 1)]
                                /\ failed' = [root |-> TRUE, entry |-> FALSE]
                                /\ rooti' = NextRoot(rooti, n, 1)
                                /\ namelist' = <<>>
                                /\ pc' = "getinfo"
                                /\ UNCHANGED held
                             \/ \E list \in ScanLists :
                                /\ namelist' = list
                                /\ held' = [ents |-> 1..Len(list),
                                            list |-> TRUE]
                                /\ last' = IF n > 1
                                           THEN [NoOutput EXCEPT
                                                   !.kind = "label",
                                                   !.path = PathQueryGetPath(arena, 1)]
                                           ELSE NoOutput
                                /\ pc' = "dir"
                                /\ failed' = [failed EXCEPT !.entry = FALSE]
                                /\ UNCHANGED rooti
    /\ UNCHANGED <<argVars, freed, harnessVars>>

\* main.c:750-772: one turn of PathQueryPrintDir's loop, on namelist[entj].
\* The path text inside the loop's error lines comes from the inner,
\* uninitialised char p[PATH_MAX] (main.c:752-753); only the fact that an
\* error line is printed is recorded (last.reported), never its text.
DirEntry ==
    /\ pc = "dir"
    /\ entj < Len(namelist)
    /\ LET n == Len(namelist)
           ent == namelist[entj + 1]
           cret == PathQueryCreateChildRet(FALSE, FALSE, FALSE)
           arena == Append(root, PathQueryCreateChild(root, 1, ent.d_name))
           Free(pret) == IF FreesEntry(IsListed(ent), cret, pret)
                         THEN [held EXCEPT !.ents = @ \ {entj + 1}]
                         ELSE held
       IN  IF ~IsListed(ent)
           THEN /\ entj' = entj + 1
                /\ last' = NoOutput /\ lastmd' = NoMeta
                /\ held' = Free(0)
                /\ UNCHANGED <<pc, seen, printed, plain, failed>>
           ELSE /\ seen' = Append(seen, ent.d_name)
                /\ plain' = IF cret = 0 /\ EntryIsPrinted(FALSE, ent)
                            THEN Append(plain, ent.d_name) ELSE plain
                /\ IF cret # 0
                   THEN /\ entj' = entj + 1
                        /\ last' = [NoOutput EXCEPT !.reported = TRUE,
                                                    !.kind = "error"]
                        /\ lastmd' = NoMeta
                        /\ held' = Free(0)
                        /\ UNCHANGED <<pc, printed, failed>>
                   ELSE IF ~EntryIsPrinted(args.recursive, ent)
                   THEN /\ entj' = NextEntry(entj, n, 0)
                        /\ last' = NoOutput /\ lastmd' = NoMeta
                        /\ held' = Free(0)
                        /\ UNCHANGED <<pc, printed, failed>>
                   ELSE \E md \in MetaOutcomes,
                           nm \in NamesAsked(PathListGetSize(args.paths),
                                             PathQueryGetLevel(arena[2])) :
                          LET r == PathQueryPrintPath(arena, 2, args, md, nm)
                          IN  /\ printed' = Append(printed, ent.d_name)
                              /\ lastmd' = md
                              /\ IF r.killed
                                 THEN /\ last' = r
                                      /\ pc' = "killed"
                                      /\ UNCHANGED <<entj, held, failed>>
                                 ELSE /\ entj' = NextEntry(entj, n, r.ret)
                                      /\ last' = [r EXCEPT
                                                    !.reported = r.ret # 0]
                                      /\ held' = Free(r.ret)
                                      /\ failed' = [failed EXCEPT
                                                !.entry = (@ \/ r.ret # 0)]
                                      /\ UNCHANGED pc
    /\ UNCHANGED <<argVars, hist, rooti, root, rootFile, namelist,
                   visited, freed, harnessVars>>

\* main.c:773-775 and main.c:805-809: the loop of PathQueryPrintDir is over,
\* it frees namelist, returns 0 and GetInfo goes to the next root
DirEnd ==
    /\ pc = "dir"
    /\ entj >= Len(namelist)
    /\ rooti' = NextRoot(rooti, PathListGetSize(args.paths), 0)
    /\ pc' = "getinfo"
    /\ last' = [NoOutput EXCEPT !.kind = "enddir"]
    /\ lastmd' = NoMeta
    /\ held' = [held EXCEPT !.list = FALSE]
    /\ UNCHANGED <<argVars, hist, root, rootFile, namelist, entj, seen,
                   printed, plain, failed, visited, freed, harnessVars>>

\* main.c:784 and main.c:812: GetInfo's loop is over
GetInfoEnd ==
    /\ pc = "getinfo"
    /\ rooti >= PathListGetSize(args.paths)
    /\ pc' = "release"
    /\ UNCHANGED <<argVars, hist, walkVars, freed, harnessVars>>

\* main.c:162-167 with main.c:342-359. PathListRelease frees arrayfile[i]
\* for i < sizefile and arraydir[i] for i < sizedir: when a count is larger
\* than the number of copies stored, it reads past the array (or through a
\* NULL or stale array pointer), which is undefined: the run crashes or
\* frees whatever the read produced.
PathListRelease ==
    /\ pc = "release"
    /\ pc' = "done"
    /\ IF /\ args.paths.sizefile = Len(args.paths.arrayfile)
          /\ args.paths.sizedir = Len(args.paths.arraydir)
       THEN freed' = "copies"
       ELSE freed' \in {"crash", "wild"}
    /\ UNCHANGED <<argVars, hist, walkVars, harnessVars>>

Next ==
    \/ ReadArg
    \/ ArgumentsReadEnd
    \/ Main
    \/ GetInfoRoot
    \/ DirEntry
    \/ DirEnd
    \/ GetInfoEnd
    \/ PathListRelease

Spec == Init /\ [][Next]_vars

\* ------------------------------------------------- predicates on texts

DotSlash == <<Dot, Slash>>

HasDotSlash(t) == Len(t) >= 2 /\ t[1] = Dot /\ t[2] = Slash

StartsWith(pre, t) == Len(t) >= Len(pre) /\ SubSeq(t, 1, Len(pre)) = pre

EndsInSlash(t) == Len(t) >= 1 /\ t[Len(t)] = Slash

AllSlashes(t) == \A i \in 1..Len(t) : t[i] = Slash

\* s is t without its trailing slashes, except that the first byte of t is
\* kept whatever it is
IsTrailingStrip(s, t) ==
    /\ Len(s) <= Len(t)
    /\ s = SubSeq(t, 1, Len(s))
    /\ AllSlashes(SubSeq(t, Len(s) + 1, Len(t)))
    /\ Len(s) >= 2 => ~EndsInSlash(s)
    /\ Len(t) >= 1 => Len(s) >= 1

\* ---------------------------------------------------------------- claims

\* C4 (as stated): every node's segment never ends in '/', and a node of
\* depth 0 never has a segment that starts with "./".
C4_Original ==
    \A i \in 1..Len(nodes) :
        /\ ~EndsInSlash(nodes[i].p)
        /\ nodes[i].lvl = 0 => ~HasDotSlash(nodes[i].p)

\* C4 (amended): a segment ends in '/' only when it is the single byte "/";
\* a depth-0 segment is its input with the trailing slashes removed and
\* nothing else, so it keeps a leading "./"; a child's segment is its leaf
\* with the trailing slashes removed and then one leading "./" removed.
C4_SegmentNormalised ==
    \A i \in 1..Len(nodes) :
        LET q == nodes[i]
        IN  /\ EndsInSlash(q.p) => q.p = <<Slash>>
            /\ q.lvl = 0 =>
                /\ IsTrailingStrip(q.p, given[i])
                /\ HasDotSlash(q.p) <=>
                       (HasDotSlash(given[i])
                        /\ ~AllSlashes(SubSeq(given[i], 3, Len(given[i]))))
            /\ q.lvl > 0 =>
                \E n \in 0..Len(given[i]) :
                    LET s == SubSeq(given[i], 1, n)
                    IN  /\ IsTrailingStrip(s, given[i])
                        /\ IF HasDotSlash(s) THEN s = DotSlash \o q.p
                                             ELSE q.p = s

\* C4 witness: a root built from "./a/"-like text that kept its "./", with a
\* child built from a text with a leading "./" and a trailing '/'.
C4_Witness ==
    /\ Len(nodes) = 2
    /\ nodes[1].lvl = 0 /\ nodes[2].lvl = 1
    /\ HasDotSlash(given[1]) /\ EndsInSlash(given[1])
    /\ HasDotSlash(nodes[1].p)
    /\ HasDotSlash(given[2]) /\ EndsInSlash(given[2])
    /\ ~HasDotSlash(nodes[2].p)

\* C5 (as stated): stripping "./" followed by t yields t, and a second
\* application never changes the result of the first.
C5_Original ==
    /\ (ops = <<"L">> /\ HasDotSlash(text)) => text = DotSlash \o buf
    /\ (Len(ops) = 2 /\ ops[1] = "L" /\ ops[2] = "L") => buf = prev

\* C5 (amended): stripping "./" followed by t yields t; each application
\* removes exactly one leading "./", so a second application changes
\* nothing exactly when the first result does not start with "./" (the
\* input did not start with "././"), and removes a further "./" otherwise.
C5_StripsOneDotSlash ==
    /\ (ops = <<"L">> /\ HasDotSlash(text)) => text = DotSlash \o buf
    /\ (ops = <<"L">> /\ ~HasDotSlash(text)) => buf = text
    /\ (Len(ops) = 2 /\ ops[1] = "L" /\ ops[2] = "L") =>
           /\ buf = prev <=> ~StartsWith(DotSlash \o DotSlash, text)
           /\ HasDotSlash(prev) => prev = DotSlash \o buf
\* C5 witness: two applications to a text starting with "././", the second
\* of which removed a further "./".
C5_Witness ==
    /\ Len(ops) = 2 /\ ops[1] = "L" /\ ops[2] = "L"
    /\ StartsWith(DotSlash \o DotSlash, text)
    /\ buf # prev

\* C6 (as stated): every text that ends in '/' and is not the single byte
\* "/" comes out with no trailing '/', as the input with all its trailing
\* slashes removed; and "/" followed by any number of '/' comes out as "/".
C6_Original ==
    ops = <<"T">> =>
        /\ (EndsInSlash(text) /\ text # <<Slash>>) =>
               (~EndsInSlash(buf) /\ IsTrailingStrip(buf, text))
        /\ (Len(text) >= 1 /\ AllSlashes(text)) => buf = <<Slash>>

\* C6 (amended): every text that ends in '/' and does not consist of '/'
\* bytes only comes out with no trailing '/', as the input with all its
\* trailing slashes removed; a text of one or more '/' bytes and nothing
\* else comes out as the single byte "/".
C6_TrailingSlashesRemoved ==
    ops = <<"T">> =>
        /\ (EndsInSlash(text) /\ ~AllSlashes(text)) =>
               /\ ~EndsInSlash(buf)
               /\ Len(buf) < Len(text)
               /\ buf = SubSeq(text, 1, Len(buf))
               /\ AllSlashes(SubSeq(text, Len(buf) + 1, Len(text)))
        /\ (Len(text) >= 1 /\ AllSlashes(text)) => buf = <<Slash>>

\* C6 witness: a text with two or more trailing slashes after a non-slash
\* byte has been stripped.
C6_Witness ==
    /\ ops = <<"T">>
    /\ Len(text) >= 3 /\ ~AllSlashes(text)
    /\ text[Len(text)] = Slash /\ text[Len(text) - 1] = Slash
    /\ Len(buf) <= Len(text) - 2
\* ------------------------------------------------------ sortedness

\* every adjacent pair a, b of the sequence has a <= b under strcmp
Ascending(seq) ==
    \A i \in 1..(Len(seq) - 1) : StrCmp(seq[i], seq[i + 1]) <= 0

Occurrences(seq, x) == Cardinality({i \in 1..Len(seq) : seq[i] = x})

\* a and b hold the same elements, each as many times
Rearranged(a, b) ==
    /\ Len(a) = Len(b)
    /\ \A i \in 1..Len(a) : Occurrences(a, a[i]) = Occurrences(b, a[i])

\* C7: after PathListSort the file array and the directory array are each
\* a rearrangement of what they held, with every adjacent pair in strcmp
\* order, and sorting the sorted list again changes nothing.
C7_SortedRearrangement ==
    /\ Len(before) >= 1 =>
        /\ Rearranged(args.paths.arrayfile, before[1].arrayfile)
        /\ Rearranged(args.paths.arraydir, before[1].arraydir)
        /\ Ascending(args.paths.arrayfile)
        /\ Ascending(args.paths.arraydir)
        /\ args.paths.sizefile = before[1].sizefile
        /\ args.paths.sizedir = before[1].sizedir
    /\ Len(before) >= 2 => args.paths = before[2]

\* C7 witness: a list whose two arrays were both out of order has been
\* sorted, and then sorted again.
C7_Witness ==
    /\ Len(before) = 2
    /\ ~Ascending(before[1].arrayfile)
    /\ ~Ascending(before[1].arraydir)
    /\ Len(before[1].arrayfile) >= 3
    /\ args.paths # before[1]
\* ---------------------------------------------------- program claims

Rendered == last.kind \in {"detail", "brief"}

\* C1: whenever PathQueryPrintPath renders an entry, it renders it in
\* detail exactly when the list holds one root path, that root was
\* classified as a file, and the rendered node has level 0; in every other
\* case it renders it brief.
C1_DetailOnlyForSingleFileRoot ==
    Rendered =>
        (last.kind = "detail" <=>
            (PathListGetSize(args.paths) = 1 /\ rootFile /\ last.lvl = 0))

\* C1 witness: the single root of a run, a file, has been rendered in detail.
C1_Witness ==
    /\ last.kind = "detail"
    /\ ~last.killed
    /\ PathListGetSize(args.paths) = 1
    /\ rootFile
    /\ last.lvl = 0

\* C2 (as stated): the names PathQueryPrintPath is called for in a
\* directory are the same with the recursive flag set as with it unset:
\* every entry other than "." and "..", subdirectories included.
C2_RecursiveFlagInert ==
    /\ printed = plain
    /\ printed = seen

\* C3 (as stated): for a symlink whose follow-symlink fetch succeeds, the
\* rendered permission bits, size and timestamps are those of the followed
\* target, the type tag and colour those of a symlink.
C3_Original ==
    (Rendered /\ S_ISLNK(lastmd.l) /\ lastmd.fok) =>
        /\ last.m = lastmd.f.perm
        /\ last.size = lastmd.f.size
        /\ last.mtime = lastmd.f.mtime
        /\ last.kind = "detail" =>
              (last.atime = lastmd.f.atime /\ last.ctime = lastmd.f.ctime)
        /\ last.modetype = "l"
        /\ last.color = "ANSI_COLOR_CYAN"

\* C3 (amended): for a symlink, whether or not a follow-symlink fetch would
\* succeed, the rendered permission bits, size and timestamps are those
\* lstat gave for the link itself, and the type tag and colour are those of
\* a symlink.
C3_SymlinkShowsLinkItself ==
    (Rendered /\ S_ISLNK(lastmd.l)) =>
        /\ last.m = lastmd.l.perm
        /\ last.size = lastmd.l.size
        /\ last.mtime = lastmd.l.mtime
        /\ last.kind = "detail" =>
              (last.atime = lastmd.l.atime /\ last.ctime = lastmd.l.ctime)
        /\ last.modetype = "l"
        /\ last.color = "ANSI_COLOR_CYAN"

\* C3 witness: a symlink whose target stat can reach has been rendered in
\* detail, with its three timestamps.
C3_Witness ==
    /\ last.kind = "detail"
    /\ ~last.killed
    /\ S_ISLNK(lastmd.l)
    /\ lastmd.fok
    /\ lastmd.f # lastmd.l

\* C8 (as stated): each count is the number of copies stored, so size() is
\* the number of stored paths, at(i) is the i-th of the files followed by
\* the directories, at(i) fails from size() on, and the release frees the
\* stored copies and nothing else.
C8_CountsMatchStoredCopies ==
    LET paths == args.paths
        stored == paths.arrayfile \o paths.arraydir
    IN  /\ paths.sizefile = Len(paths.arrayfile)
        /\ paths.sizedir = Len(paths.arraydir)
        /\ PathListGetSize(paths) = Len(stored)
        /\ \A i \in 0..(Len(stored) - 1) :
              PathListGetPathAtIndex(paths, i) =
                  [ret |-> 0, buf |-> stored[i + 1]]
        /\ PathListGetPathAtIndex(paths, Len(stored)).ret = 1
        /\ freed \in {"no", "copies"}

\* the PathList calls of the run were: adds, then one sort, then at()s
AddsSortAts ==
    /\ Cardinality({i \in 1..Len(hist) : hist[i] = "sort"}) = 1
    /\ \A i, j \in 1..Len(hist) :
          i < j => /\ hist[i] = "sort" => hist[j] = "at"
                   /\ hist[i] = "at" => hist[j] = "at"

\* C9: once the traversal is reached, the list has been sorted exactly
\* once, after every add and before every at(); and the roots taken so far
\* are the file-classified roots in ascending order followed by the
\* directory-classified roots in ascending order, as far as the walk got.
C9_SortedOnceFilesThenDirs ==
    (pc \in {"getinfo", "dir"} \/ visited # <<>>) =>
        /\ AddsSortAts
        /\ Ascending(args.paths.arrayfile)
        /\ Ascending(args.paths.arraydir)
        /\ Len(visited) <= Len(args.paths.arrayfile \o args.paths.arraydir)
        /\ visited = SubSeq(args.paths.arrayfile \o args.paths.arraydir,
                            1, Len(visited))
        /\ Len(visited) = Cardinality({i \in 1..Len(hist) : hist[i] = "at"})

\* C9 witness: a run with two file roots and a directory root whose name
\* sorts before both has taken the files in order and then the directory.
C9_Witness ==
    /\ pc = "release"
    /\ Len(visited) = 3
    /\ args.paths.sizefile = 2
    /\ StrCmp(visited[1], visited[2]) < 0
    /\ StrCmp(visited[3], visited[1]) < 0

\* the names of the entries of a list that are neither "." nor ".."
RECURSIVE ListedNames(_)
ListedNames(list) ==
    IF list = <<>> THEN <<>>
    ELSE (IF IsListed(Head(list)) THEN <<Head(list).d_name>> ELSE <<>>)
         \o ListedNames(Tail(list))

\* the failures PathQueryPrintPath and PathQueryPrintDir return are
\* contained: a root or an entry that returns nonzero is reported; when the
\* loop of a directory is over, every entry of the directory other than "."
\* and ".." was taken up, in order, whatever failed before it; and when
\* GetInfo is over, every root of the list was taken up.
ReturnedFailuresAreContained ==
    /\ last.ret # 0 => last.reported
    /\ last.kind = "enddir" => seen = ListedNames(namelist)
    /\ (pc \in {"release", "done"} /\ hist # <<>> /\ error = 0
        /\ ~args.showhelp /\ ~args.showversion /\ ~args.briefDescription) =>
           /\ rooti = PathListGetSize(args.paths)
           /\ visited = args.paths.arrayfile \o args.paths.arraydir

\* an entry has been rendered after an earlier entry of the same directory
\* failed and after an earlier root failed
LaterEntryRendered ==
    /\ pc = "dir"
    /\ last.kind = "brief"
    /\ last.lvl = 1
    /\ failed.entry
    /\ failed.root

\* C10 (as stated): a failure while processing an entry or a root is
\* reported and skips only that entry or root, and GetInfo runs to the end
\* of the root list: the failures returned are contained, and no failure
\* ends the run inside GetInfo.
C10_FailureSkipsOnlyItself ==
    /\ ReturnedFailuresAreContained
    /\ ~last.killed
    /\ pc # "killed"

\* C11: what scandir allocated in PathQueryPrintDir is freed when
\* PathQueryPrintDir returns: outside the function no entry buffer and no
\* entry list is held, after the return of a call whose scandir failed as
\* well as after the return of a call in which the rendering of entries
\* failed; inside the loop exactly the buffers of the entries still to come
\* and the list are held.
C11_ScanReleasedOnReturn ==
    /\ pc # "dir" => held = NothingHeld
    /\ pc = "dir" => /\ held.list
                     /\ held.ents = (entj + 1)..Len(namelist)

\* C11 witness: PathQueryPrintDir has returned from a directory with
\* entries other than "." and "..", the rendering of one of them has
\* failed, and nothing of the directory read is held.
C11_Witness ==
    /\ last.kind = "enddir"
    /\ printed # <<>>
    /\ failed.entry
    /\ Len(namelist) > 2
    /\ held = NothingHeld

\* the segments of the chain that ends in node qi, root first
RECURSIVE ChainSegments(_, _)
ChainSegments(arena, qi) ==
    IF arena[qi].parent = 0 THEN <<arena[qi].p>>
    ELSE Append(ChainSegments(arena, arena[qi].parent), arena[qi].p)

\* the texts of a sequence with a '/' between each two neighbours
RECURSIVE JoinWithSlash(_)
JoinWithSlash(segs) ==
    IF Len(segs) = 1 THEN segs[1]
    ELSE JoinWithSlash(SubSeq(segs, 1, Len(segs) - 1))
         \o <<Slash>> \o segs[Len(segs)]

\* C12: for every node built, PathQueryGetPath returned the segments of
\* its chain joined root to leaf with '/' between them and with the
\* trailing slashes removed, and for a root node it returned the root's own
\* segment.
C12_PathIsJoinedSegments ==
    \A i \in 1..Len(nodes) :
        /\ full[i] = RemoveTrailingForwardSlashes(
                         JoinWithSlash(ChainSegments(nodes, i)))
        /\ nodes[i].parent = 0 => full[i] = nodes[i].p

\* the chain "x", "y", "z" has been built and its three paths are "x",
\* "x/y" and "x/y/z"
XYZChainReconstructed ==
    /\ Len(nodes) = 3
    /\ <<nodes[1].p, nodes[2].p, nodes[3].p>> = <<<<120>>, <<121>>, <<122>>>>
    /\ full = <<<<120>>, <<120, Slash, 121>>,
                <<120, Slash, 121, Slash, 122>>>>
====
